---- MODULE Spec2Model ----
(***************************************************************************)
(* Health-monitoring subsystem of the bot: the UptimeMonitor probe loop    *)
(* (keep_alive.py) and the HealthCheckServer start-up (web_server.py,      *)
(* bot.py).                                                                *)
(*                                                                         *)
(* The monitor runs on asyncio: a coroutine runs without interruption from *)
(* one await to the next, so every action below is one resumption of       *)
(* start_monitoring, from the await it was suspended at to the next await  *)
(* (or to its return).  pc[t] names the await the coroutine of call t is   *)
(* suspended at.  CancelledError is a BaseException (Python 3.8 and        *)
(* later): "except Exception" does not catch it.                           *)
(***************************************************************************)
EXTENDS Integers, Sequences, FiniteSets, TLC

\* ---------------------------------------------------------------- bounds
\* Probe calls that may be issued on one monitor.
MaxProbes == 10
\* Advances of the clock in one run of the server process.
MaxTicks == 3
\* The formatters are applied to every whole second up to MaxSeconds and,
\* beyond, to the days up to MaxDays.
\* Probes made in the runs where start_monitoring() is called more than once.
MaxRestartProbes == 3
MaxSeconds == 7300
MaxDays == 22

\* ------------------------------------------------------ program constants
Interval == 300
Timeout == 10
Cooldown == 30
StatsEvery == 10
None == -1

\* Calls of start_monitoring() on the monitor (one coroutine each).
Loops == {1, 2}
\* The call made by keep_alive(): one start_monitoring() per monitor.
KeepAlive == {1}

VARIABLES
    now,           \* the wall clock, datetime.now(), in seconds
    start_time,    \* UptimeMonitor.start_time
    last_ping,     \* UptimeMonitor.last_ping (None or a time)
    ping_count,    \* UptimeMonitor.ping_count
    failed_pings,  \* UptimeMonitor.failed_pings
    is_running,    \* UptimeMonitor.is_running
    pc,            \* pc[t]: where call t of start_monitoring is suspended
    wake,          \* wake[t]: when the sleep call t awaits is due
    probes,        \* observation: calls of ping_service that have ended
    outcome,       \* observation: what the request of the last one met
    ret,           \* observation: what the last one returned
    summary,       \* observation: the last probe was followed by a stats line
    error,         \* observation: error[t], the last exception raised in call t
    faults,        \* observation: exceptions raised in the loop body so far
    stop_req,      \* observation: stop_monitoring() came while t slept
    entry,         \* the script the process runs: bot.py or web_server.py
    proc,          \* where the process is
    exit_code,     \* the status the process has exited with (None: none)
    bot,           \* bot.py's global `bot`
    srv_bot,       \* HealthCheckServer.bot
    srv_start,     \* HealthCheckServer.start_time
    listening,     \* the site of the health server is started
    raised,        \* what start_server() raised to its caller
    surfaced,      \* what the start-up raised to the owner of the process
    response,      \* the last HTTP response of the health server
    ticks,         \* observation: advances of the clock so far
    queried,       \* observation: how the last get_me() of GET /status ended
    stats          \* what the call of get_uptime_stats() just made returned

monitor == <<start_time, last_ping, ping_count, failed_pings, is_running>>
observed == <<probes, outcome, ret, summary, error, faults, stop_req>>
server == <<entry, proc, exit_code, bot, srv_bot, srv_start, listening,
            raised, surfaced, response, ticks, queried>>
vars == <<now, monitor, pc, wake, observed, server, stats>>

\* No call of get_uptime_stats() has just returned.
NoStats == [called |-> FALSE]

\* What one HTTP request of ping_service can meet.
Response(s) == [kind |-> "response", status |-> s]
Fault(k) == [kind |-> k, status |-> 0]
NoProbe == Fault("none")
Outcomes ==
    {Response(200), Response(404), Response(500)}
        \cup {Fault("timeout"), Fault("client_error"), Fault("unexpected")}

\* The time a request takes: the whole timeout when it times out.
Latency(o) == IF o.kind = "timeout" THEN Timeout ELSE 1

Max(a, b) == IF a >= b THEN a ELSE b

\* ------------------------------------------------------------ ping_service
\* The fields ping_service leaves and what it returns, the request meeting o
\* at time `at`.  exc is the exception that leaves the call ("none": it
\* returns).
ping_service_no_catch_all(o, at) ==
    IF o.kind = "response"
    THEN [ping_count |-> ping_count + 1, last_ping |-> at,
          failed_pings |-> IF o.status = 200 THEN failed_pings
                           ELSE failed_pings + 1,
          ret |-> (o.status = 200), exc |-> "none"]
    ELSE [ping_count |-> ping_count, last_ping |-> last_ping,
          failed_pings |-> IF o.kind = "unexpected" THEN failed_pings
                           ELSE failed_pings + 1,
          ret |-> FALSE,
          exc |-> IF o.kind = "unexpected" THEN "Exception" ELSE "none"]

ping_service(o, at) ==
    IF o.kind = "response"
    THEN [ping_count |-> ping_count + 1,
          last_ping |-> at,
          failed_pings |-> IF o.status = 200 THEN failed_pings
                           ELSE failed_pings + 1,
          ret |-> (o.status = 200),
          exc |-> "none"]
    ELSE \* asyncio.TimeoutError, aiohttp.ClientError, Exception
         [ping_count |-> ping_count,
          last_ping |-> last_ping,
          failed_pings |-> failed_pings + 1,
          ret |-> FALSE,
          exc |-> "none"]

\* ------------------------------------------------------- start_monitoring
\* "while self.is_running:" and what follows it.
WhileRunning(running) == IF running THEN "sleep" ELSE "done"

\* After asyncio.sleep(self.interval): "if self.is_running:" and, when it is
\* false, the loop condition.
AfterSleep_no_recheck(running) == "ping"

AfterSleep(running) == IF running THEN "ping" ELSE WhileRunning(running)

\* "if self.ping_count % 10 == 0:"
StatsDue(count) == count % StatsEvery = 0

\* The except clauses of the loop body.
LoopExcept_cancel_uncaught(exc) ==
    IF exc = "CancelledError" THEN "raised" ELSE "cooldown"

LoopExcept_break_on_error(exc) == "done"

LoopExcept(exc) == IF exc = "CancelledError" THEN "done" ELSE "cooldown"

\* Where a CancelledError thrown into the await at p takes the coroutine.
CancelAt(p) ==
    IF p \in {"sleep", "ping"} THEN LoopExcept("CancelledError") ELSE "raised"

\* The sleep the coroutine starts on entering p.
Delay(p) == IF p = "cooldown" THEN Cooldown ELSE Interval

\* Call t goes on to p at time `at`.
Goto(t, p, at) ==
    /\ pc' = [pc EXCEPT ![t] = p]
    /\ wake' = IF p \in {"sleep", "cooldown"}
               THEN [wake EXCEPT ![t] = at + Delay(p)]
               ELSE wake

\* One call of ping_service ends, its request having met o.
Probe(o, r) ==
    /\ now' = now + Latency(o)
    /\ ping_count' = r.ping_count
    /\ last_ping' = r.last_ping
    /\ failed_pings' = r.failed_pings
    /\ probes' = probes + 1
    /\ outcome' = o
    /\ ret' = r.ret
    /\ UNCHANGED <<start_time, is_running, stop_req>>

\* The monitor as UptimeMonitor.__init__ leaves it.
MonitorInit ==
    /\ now = 0
    /\ start_time = 0
    /\ last_ping = None
    /\ ping_count = 0
    /\ failed_pings = 0
    /\ is_running = FALSE
    /\ pc = [t \in Loops |-> "idle"]
    /\ wake = [t \in Loops |-> 0]
    /\ probes = 0
    /\ outcome = NoProbe
    /\ ret = FALSE
    /\ summary = FALSE
    /\ error = [t \in Loops |-> "none"]
    /\ faults = 0
    /\ stop_req = [t \in Loops |-> FALSE]
    /\ stats = NoStats

\* No process has been started.
NoProcess ==
    /\ entry = "none"
    /\ proc = "import"
    /\ exit_code = None
    /\ bot = "unset"
    /\ srv_bot = "unset"
    /\ srv_start = None
    /\ listening = FALSE
    /\ raised = "none"
    /\ surfaced = "none"
    /\ response = [route |-> "none", status |-> 0, exc |-> "none",
                   body |-> <<>>]
    /\ ticks = 0
    /\ queried = "none"

Init == MonitorInit /\ NoProcess

\* start_monitoring(), to its first await: the first ping.
StartMonitoring_sleep_first(t) ==
    /\ pc[t] = "idle"
    /\ UNCHANGED server
    /\ stats' = NoStats
    /\ probes < MaxProbes
    /\ is_running' = TRUE
    /\ Goto(t, "sleep", now)
    /\ UNCHANGED <<now, start_time, last_ping, ping_count, failed_pings,
                   observed>>

StartMonitoring(t) ==
    /\ pc[t] = "idle"
    /\ UNCHANGED server
    /\ stats' = NoStats
    /\ probes < MaxProbes
    /\ is_running' = TRUE
    /\ Goto(t, "first_ping", now)
    /\ UNCHANGED <<now, start_time, last_ping, ping_count, failed_pings,
                   observed>>

\* "await self.ping_service()" before the loop ends; the loop is entered.
FirstPing(t) ==
    /\ pc[t] = "first_ping"
    /\ UNCHANGED server
    /\ stats' = NoStats
    /\ \E o \in Outcomes :
        LET r == ping_service(o, now + Latency(o)) IN
        /\ Probe(o, r)
        /\ summary' = FALSE
        /\ faults' = faults
        /\ IF r.exc = "none"
           THEN /\ Goto(t, WhileRunning(is_running), now')
                /\ UNCHANGED error
           ELSE /\ Goto(t, "raised", now')
                /\ error' = [error EXCEPT ![t] = r.exc]

\* asyncio.sleep(self.interval) ends; the flag is checked again.
SleepDone(t) ==
    /\ pc[t] = "sleep"
    /\ UNCHANGED server
    /\ stats' = NoStats
    /\ AfterSleep(is_running) = "ping" => probes < MaxProbes
    /\ now' = Max(now, wake[t])
    /\ Goto(t, AfterSleep(is_running), now')
    /\ UNCHANGED <<monitor, observed>>

\* "await self.ping_service()" in the loop ends; the statistics line every
\* tenth ping; the loop condition.  `fault` is an exception raised while the
\* statistics line is computed or logged.
LoopPing(t) ==
    /\ pc[t] = "ping"
    /\ UNCHANGED server
    /\ stats' = NoStats
    /\ \E o \in Outcomes, fault \in BOOLEAN :
        LET r == ping_service(o, now + Latency(o))
            due == StatsDue(r.ping_count)
            exc == IF r.exc # "none" THEN r.exc
                   ELSE IF due /\ fault THEN "LoopFault" ELSE "none"
        IN
        /\ fault => due /\ r.exc = "none"
        /\ Probe(o, r)
        /\ summary' = (due /\ exc = "none")
        /\ faults' = IF exc = "none" THEN faults ELSE faults + 1
        /\ IF exc = "none"
           THEN /\ Goto(t, WhileRunning(is_running), now')
                /\ UNCHANGED error
           ELSE /\ Goto(t, LoopExcept(exc), now')
                /\ error' = [error EXCEPT ![t] = exc]

\* asyncio.sleep(30) in the except clause ends; the loop condition.
CooldownDone(t) ==
    /\ pc[t] = "cooldown"
    /\ UNCHANGED server
    /\ stats' = NoStats
    /\ now' = Max(now, wake[t])
    /\ Goto(t, WhileRunning(is_running), now')
    /\ UNCHANGED <<monitor, observed>>

\* The task running call t is cancelled: CancelledError is thrown into the
\* await the coroutine is suspended at.
Cancel(t) ==
    /\ pc[t] \in {"first_ping", "sleep", "ping", "cooldown"}
    /\ UNCHANGED server
    /\ stats' = NoStats
    /\ error' = [error EXCEPT ![t] = "CancelledError"]
    /\ Goto(t, CancelAt(pc[t]), now)
    /\ UNCHANGED <<now, monitor, probes, outcome, ret, summary, faults,
                   stop_req>>

\* stop_monitoring()
StopMonitoring ==
    /\ is_running' = FALSE
    /\ UNCHANGED server
    /\ stats' = NoStats
    /\ stop_req' = [t \in Loops |-> stop_req[t] \/ pc[t] = "sleep"]
    /\ UNCHANGED <<now, start_time, last_ping, ping_count, failed_pings, pc,
                   wake, probes, outcome, ret, summary, error, faults>>

Step(t) ==
    \/ StartMonitoring(t)
    \/ FirstPing(t)
    \/ SleepDone(t)
    \/ LoopPing(t)
    \/ CooldownDone(t)
    \/ Cancel(t)

Next ==
    \/ \E t \in KeepAlive : Step(t)
    \/ StopMonitoring

Spec == Init /\ [][Next]_vars

\* Timers fire and requests end (each is bounded by its timeout).
Fairness ==
    \A t \in KeepAlive :
        /\ WF_vars(FirstPing(t))
        /\ WF_vars(SleepDone(t))
        /\ WF_vars(LoopPing(t))
        /\ WF_vars(CooldownDone(t))

FairSpec == Spec /\ Fairness

\* start_monitoring() called again on the same monitor, whatever the earlier
\* call is doing: every call is a coroutine of its own over the same fields.
RestartNext ==
    \/ \E t \in Loops : Step(t) /\ probes' <= MaxRestartProbes
    \/ StopMonitoring

RestartSpec == Init /\ [][RestartNext]_vars

\* -------------------------------------------- get_uptime_stats, format_duration
\* The tokens of the string format_duration joins with " "; the unit letters
\* are transliterated (d, ch, m, s).
format_duration_seconds_always(seconds) ==
    LET days == seconds \div 86400
        hours == (seconds % 86400) \div 3600
        minutes == (seconds % 3600) \div 60
        secs == seconds % 60
    IN  (IF days > 0 THEN <<[n |-> days, word |-> "d"]>> ELSE <<>>)
        \o (IF hours > 0 THEN <<[n |-> hours, word |-> "ch"]>> ELSE <<>>)
        \o (IF minutes > 0 THEN <<[n |-> minutes, word |-> "m"]>> ELSE <<>>)
        \o <<[n |-> secs, word |-> "s"]>>

format_duration_hours_of_total(seconds) ==
    LET days == seconds \div 86400
        hours == seconds \div 3600
        minutes == (seconds % 3600) \div 60
        secs == seconds % 60
        parts ==
            (IF days > 0 THEN <<[n |-> days, word |-> "d"]>> ELSE <<>>)
            \o (IF hours > 0 THEN <<[n |-> hours, word |-> "ch"]>> ELSE <<>>)
            \o (IF minutes > 0 THEN <<[n |-> minutes, word |-> "m"]>>
                ELSE <<>>)
    IN  IF secs > 0 \/ parts = <<>>
        THEN parts \o <<[n |-> secs, word |-> "s"]>>
        ELSE parts

format_duration(seconds) ==
    LET days == seconds \div 86400
        hours == (seconds % 86400) \div 3600
        minutes == (seconds % 3600) \div 60
        secs == seconds % 60
        parts ==
            (IF days > 0 THEN <<[n |-> days, word |-> "d"]>> ELSE <<>>)
            \o (IF hours > 0 THEN <<[n |-> hours, word |-> "ch"]>> ELSE <<>>)
            \o (IF minutes > 0 THEN <<[n |-> minutes, word |-> "m"]>>
                ELSE <<>>)
    IN  IF secs > 0 \/ parts = <<>>
        THEN parts \o <<[n |-> secs, word |-> "s"]>>
        ELSE parts

\* round(x, 2) of x = num / den * 100, in hundredths of a percent.  A tie (a
\* third decimal of exactly 5) needs den >= 32.
Round2(num, den) == (2 * num * 10000 + den) \div (2 * den)

\* What get_uptime_stats() returns.
get_uptime_stats_counts_successes ==
    [called |-> TRUE,
     start_time |-> start_time,
     uptime_seconds |-> now - start_time,
     uptime_formatted |-> format_duration(now - start_time),
     last_ping |-> last_ping,
     total_pings |-> ping_count - failed_pings,
     failed_pings |-> failed_pings,
     success_rate |-> IF ping_count > 0
                      THEN Round2(ping_count - failed_pings, ping_count)
                      ELSE 0]

get_uptime_stats ==
    [called |-> TRUE,
     start_time |-> start_time,
     uptime_seconds |-> now - start_time,
     uptime_formatted |-> format_duration(now - start_time),
     last_ping |-> last_ping,
     total_pings |-> ping_count,
     failed_pings |-> failed_pings,
     success_rate |-> IF ping_count > 0
                      THEN Round2(ping_count - failed_pings, ping_count)
                      ELSE 0]

\* A call of get_uptime_stats() from outside the loop.
GetUptimeStats ==
    /\ stats' = get_uptime_stats
    /\ UNCHANGED <<now, monitor, pc, wake, observed, server>>

\* The monitor of keep_alive() with a reader of its statistics.
StatsNext ==
    \/ \E t \in KeepAlive : Step(t)
    \/ StopMonitoring
    \/ GetUptimeStats

StatsSpec == Init /\ [][StatsNext]_vars

\* ------------------------------------------------------ HealthCheckServer
\* Unit names are transliterated: den', chas, minut(a), sekund(a).
format_uptime(seconds) ==
    LET days == seconds \div 86400
        hours == (seconds % 86400) \div 3600
        minutes == (seconds % 3600) \div 60
        secs == seconds % 60
        d == IF days > 0
             THEN <<[n |-> days,
                     word |-> "den" \o (IF days = 1 THEN ""
                                        ELSE IF 2 <= days /\ days <= 4
                                             THEN "a" ELSE "ey")]>>
             ELSE <<>>
        h == IF hours > 0
             THEN <<[n |-> hours,
                     word |-> "chas" \o (IF hours = 1 THEN ""
                                         ELSE IF 2 <= hours /\ hours <= 4
                                              THEN "a" ELSE "ov")]>>
             ELSE <<>>
        m == IF minutes > 0
             THEN <<[n |-> minutes,
                     word |-> "minut" \o (IF minutes = 1 THEN "a"
                                          ELSE IF 2 <= minutes /\ minutes <= 4
                                               THEN "y" ELSE "")]>>
             ELSE <<>>
        parts == d \o h \o m
    IN  IF secs > 0 \/ parts = <<>>
        THEN parts \o <<[n |-> secs,
                         word |-> "sekund" \o (IF secs = 1 THEN "a"
                                               ELSE IF 2 <= secs /\ secs <= 4
                                                    THEN "y" ELSE "")]>>
        ELSE parts

\* GET / and GET /health
health_check ==
    [route |-> "/health", status |-> 200, exc |-> "none",
     body |-> <<"healthy", "telegram-giveaway-bot", now, now - srv_start>>]

\* GET /status; get_me is whether the bot's get_me() answers.
bot_status_no_try(get_me) ==
    IF srv_bot = "Bot"
    THEN IF get_me
         THEN [route |-> "/status", status |-> 200, exc |-> "none",
               body |-> <<"running", now>>]
         ELSE [route |-> "/status", status |-> 500, exc |-> "Exception",
               body |-> <<>>]
    ELSE [route |-> "/status", status |-> 200, exc |-> "none",
          body |-> <<"not_initialized", now>>]

bot_status(get_me) ==
    IF srv_bot = "Bot"
    THEN IF get_me
         THEN [route |-> "/status", status |-> 200, exc |-> "none",
               body |-> <<"running", now>>]
         ELSE \* except Exception
              [route |-> "/status", status |-> 500, exc |-> "none",
               body |-> <<"error", now>>]
    ELSE [route |-> "/status", status |-> 200, exc |-> "none",
          body |-> <<"not_initialized", now>>]

\* GET /uptime
uptime ==
    [route |-> "/uptime", status |-> 200, exc |-> "none",
     body |-> <<srv_start, now, format_uptime(now - srv_start)>>]

\* start_server(): whether the site listens afterwards and what the call
\* raises, the bind of the port ending as `bind`.
start_server(bind) ==
    IF bind = "ok"
    THEN [listening |-> TRUE, exc |-> "none"]
    ELSE [listening |-> FALSE, exc |-> "OSError"]

\* What bot.py's on_startup(dp) raises, start_server having raised exc.
on_startup(exc) == "none"

\* What web_server.py's main() raises, start_server having raised exc.
main(exc) == exc

Binds == {"ok", "port_in_use", "permission_denied"}
Tokens == {"valid", "malformed", "empty"}
Entries == {"bot.py", "web_server.py"}
\* The advances of the clock between two events.
Advances == {1, 21, 60, 3600, 86400}

\* A process is started on one of the two scripts.
ServerInit ==
    /\ MonitorInit
    /\ entry \in Entries
    /\ proc = "import"
    /\ exit_code = None
    /\ bot = "unset"
    /\ srv_bot = "unset"
    /\ srv_start = None
    /\ listening = FALSE
    /\ raised = "none"
    /\ surfaced = "none"
    /\ response = [route |-> "none", status |-> 0, exc |-> "none",
                   body |-> <<>>]
    /\ ticks = 0
    /\ queried = "none"

\* bot.py, the module's body: the bot, and with it the dispatcher and the
\* health server, or exit status 1.
BotImport ==
    /\ entry = "bot.py"
    /\ proc = "import"
    /\ \E token \in Tokens :
        /\ bot' = IF token = "valid" THEN "Bot" ELSE "None"
        /\ IF bot' = "Bot"
           THEN /\ srv_bot' = "Bot"
                /\ srv_start' = now
                /\ proc' = "startup"
                /\ exit_code' = exit_code
           ELSE /\ proc' = "exited"
                /\ exit_code' = 1
                /\ UNCHANGED <<srv_bot, srv_start>>
    /\ UNCHANGED <<now, monitor, pc, wake, observed, stats, entry, listening,
                   raised, surfaced, response, ticks, queried>>

\* bot.py: executor.start_polling() runs on_startup(dp), then polls.
BotStartup ==
    /\ entry = "bot.py"
    /\ proc = "startup"
    /\ \E bind \in Binds :
        LET r == start_server(bind)
            e == on_startup(r.exc)
        IN
        /\ listening' = r.listening
        /\ raised' = r.exc
        /\ surfaced' = e
        /\ proc' = IF e = "none" THEN "polling" ELSE "exited"
        /\ exit_code' = IF e = "none" THEN exit_code ELSE 1
    /\ UNCHANGED <<now, monitor, pc, wake, observed, stats, entry, bot,
                   srv_bot, srv_start, response, ticks, queried>>

\* web_server.py run as a script: HealthCheckServer(), start_server(), then
\* the endless sleep loop; an exception that leaves main() ends the process.
Standalone ==
    /\ entry = "web_server.py"
    /\ proc = "import"
    /\ srv_bot' = "None"
    /\ srv_start' = now
    /\ \E bind \in Binds :
        LET r == start_server(bind)
            e == main(r.exc)
        IN
        /\ listening' = r.listening
        /\ raised' = r.exc
        /\ surfaced' = e
        /\ proc' = IF e = "none" THEN "serving" ELSE "exited"
        /\ exit_code' = IF e = "none" THEN exit_code ELSE 1
    /\ UNCHANGED <<now, monitor, pc, wake, observed, stats, entry, bot,
                   response, ticks, queried>>

Serving == listening /\ proc \in {"polling", "serving"}

ServerFrame ==
    UNCHANGED <<now, monitor, pc, wake, observed, stats, entry, proc,
                exit_code, bot, srv_bot, srv_start, listening, raised,
                surfaced, ticks>>

GetHealth ==
    /\ Serving
    /\ response' = health_check
    /\ queried' = queried
    /\ ServerFrame

GetStatus ==
    /\ Serving
    /\ \E get_me \in BOOLEAN :
        /\ response' = bot_status(get_me)
        /\ queried' = IF srv_bot # "Bot" THEN "none"
                      ELSE IF get_me THEN "answered" ELSE "failed"
    /\ ServerFrame

GetUptime ==
    /\ Serving
    /\ response' = uptime
    /\ queried' = queried
    /\ ServerFrame

\* Time passes in a running process.
TimePasses ==
    /\ proc \in {"startup", "polling", "serving"}
    /\ ticks < MaxTicks
    /\ \E d \in Advances : now' = now + d
    /\ ticks' = ticks + 1
    /\ UNCHANGED <<monitor, pc, wake, observed, stats, entry, proc,
                   exit_code, bot, srv_bot, srv_start, listening, raised,
                   surfaced, response, queried>>

ServerNext ==
    \/ BotImport
    \/ BotStartup
    \/ Standalone
    \/ GetHealth
    \/ GetStatus
    \/ GetUptime
    \/ TimePasses

ServerSpec == ServerInit /\ [][ServerNext]_vars

\* ------------------------------------------------------------- formatters
\* The elapsed times the formatters are applied to: every second of the
\* first MaxSeconds, and beyond them every day and hour with the ends of the
\* ranges of minutes and seconds.
Durations ==
    (0..MaxSeconds)
        \cup {d * 86400 + h * 3600 + m * 60 + x :
                  d \in 0..MaxDays, h \in 0..23, m \in {0, 1, 59},
                  x \in {0, 1, 59}}

\* A monitor that was never started and a health server (web_server.py run
\* as a script, its port bound), both constructed at time 0, some time later.
FormatInit ==
    /\ now \in Durations
    /\ start_time = 0
    /\ last_ping = None
    /\ ping_count = 0
    /\ failed_pings = 0
    /\ is_running = FALSE
    /\ pc = [t \in Loops |-> "idle"]
    /\ wake = [t \in Loops |-> 0]
    /\ probes = 0
    /\ outcome = NoProbe
    /\ ret = FALSE
    /\ summary = FALSE
    /\ error = [t \in Loops |-> "none"]
    /\ faults = 0
    /\ stop_req = [t \in Loops |-> FALSE]
    /\ stats = NoStats
    /\ entry = "web_server.py"
    /\ proc = "serving"
    /\ exit_code = None
    /\ bot = "unset"
    /\ srv_bot = "None"
    /\ srv_start = 0
    /\ listening = TRUE
    /\ raised = "none"
    /\ surfaced = "none"
    /\ response = [route |-> "none", status |-> 0, exc |-> "none",
                   body |-> <<>>]
    /\ ticks = 0
    /\ queried = "none"

FormatNext ==
    \/ GetUptimeStats
    \/ GetUptime

FormatSpec == FormatInit /\ [][FormatNext]_vars

\* ------------------------------------------------------------- properties
Running(t) == pc[t] \in {"first_ping", "sleep", "ping", "cooldown"}

\* The state of the loop of call t: STOPPED before the call and once
\* "Uptime monitor stopped" is logged, RUNNING in between.
LoopState(t) ==
    IF Running(t) THEN "RUNNING"
    ELSE IF pc[t] = "raised" THEN "RAISED" ELSE "STOPPED"

\* This step is the end of one call of ping_service.
ProbeEnds == probes' = probes + 1

\* C1: in every reachable state of a monitor, whatever the outcomes of its
\* probes were, failed_pings <= ping_count.
C1_FailedAtMostCount == failed_pings <= ping_count

\* C2: every call of ping_service adds exactly one to ping_count whatever
\* its outcome, and exactly one to failed_pings iff the outcome is not
\* HTTP 200.
C2_CountersPerProbe ==
    [][ProbeEnds =>
          /\ ping_count' = ping_count + 1
          /\ failed_pings' =
                 IF outcome' = Response(200) THEN failed_pings
                 ELSE failed_pings + 1]_vars

\* C3: every call of ping_service sets last_ping to the time at which it
\* returns, whatever its outcome; so last_ping is None only while no probe
\* has been made.
C3_LastPingEveryProbe ==
    /\ [][ProbeEnds => last_ping' = now']_vars
    /\ [](last_ping = None => probes = 0)

\* C4: ping_service returns true iff the response status is 200 and false
\* for every other outcome; no fault of the request leaves the call (the
\* call returns, and start_monitoring goes on); an HTTP 500 adds exactly one
\* to ping_count and one to failed_pings.
C4_ProbeReturnsBoolean ==
    [][ProbeEnds =>
          /\ ret' = (outcome' = Response(200))
          /\ \A t \in Loops :
                 /\ pc'[t] = "raised" => pc[t] = "raised"
                 /\ error'[t] \in {error[t], "LoopFault"}
          /\ outcome' = Response(500) =>
                 /\ ping_count' = ping_count + 1
                 /\ failed_pings' = failed_pings + 1]_vars

C4_Witness ==
    /\ probes = 2
    /\ outcome = Fault("unexpected")
    /\ ret = FALSE
    /\ pc[1] = "sleep"
    /\ ping_count = 1
    /\ failed_pings = 2

\* C5: once stop_monitoring() has been called while the loop of call t was
\* in its interval sleep, that loop issues no further probe (it is asleep or
\* has returned), and it returns when the sleep ends.
C5_StopWhileSleeping ==
    /\ [](\A t \in Loops : stop_req[t] => pc[t] \in {"sleep", "done"})
    /\ \A t \in Loops : stop_req[t] ~> (pc[t] = "done")

C5_Witness ==
    /\ stop_req[1]
    /\ pc[1] = "done"
    /\ error[1] = "none"
    /\ probes >= 2

\* C6: start_monitoring() sets is_running and issues its first probe before
\* any sleep; every later probe of the loop is issued at the end of an
\* interval sleep that lasted the whole interval and after which is_running
\* was true.
C6_ProbeSchedule ==
    [][\A t \in Loops :
          /\ pc[t] = "idle" /\ pc'[t] # "idle" =>
                 is_running' /\ pc'[t] = "first_ping"
          /\ pc'[t] = "sleep" /\ pc[t] # "sleep" =>
                 /\ pc[t] \in {"first_ping", "ping", "cooldown"}
                 /\ wake'[t] = now' + Interval
          /\ pc'[t] = "ping" /\ pc[t] # "ping" =>
                 /\ pc[t] = "sleep"
                 /\ is_running
                 /\ now' >= wake[t]]_vars

C6_Witness ==
    /\ pc[1] = "ping"
    /\ probes = 2
    /\ now >= 2 * Interval

\* C7: a cancellation that comes while the loop sleeps its interval makes
\* start_monitoring return (it does not raise); the loop issues no further
\* probe and is STOPPED from then on.
C7_CancelWhileSleeping ==
    [][\A t \in Loops :
          /\ (pc[t] = "sleep" /\ error'[t] # error[t]
                  /\ error'[t] = "CancelledError") =>
                 /\ pc'[t] = "done"
                 /\ probes' = probes
                 /\ LoopState(t)' = "STOPPED"
          /\ pc[t] = "done" => pc'[t] = "done"]_vars

C7_Witness ==
    /\ pc[1] = "done"
    /\ error[1] = "CancelledError"
    /\ is_running
    /\ probes >= 2

\* C8: an exception raised in the loop body (one ping_service did not
\* absorb) does not end the loop and does not leave start_monitoring: the
\* loop sleeps the 30 seconds of the cooldown and then, if is_running is
\* still true, sleeps its interval before the next probe.
C8_LoopFaultCooldown ==
    [][\A t \in Loops :
          /\ faults' # faults /\ pc'[t] # pc[t] =>
                 pc'[t] = "cooldown" /\ wake'[t] = now' + Cooldown
          /\ pc[t] = "cooldown" /\ error'[t] = error[t] =>
                 \/ pc'[t] = "cooldown"
                 \/ /\ now' >= wake[t]
                    /\ pc'[t] = IF is_running THEN "sleep" ELSE "done"
                    /\ is_running => wake'[t] = now' + Interval
          /\ pc'[t] = "raised" /\ pc[t] # "raised" =>
                 error'[t] = "CancelledError"]_vars

C8_Witness ==
    /\ faults = 1
    /\ error[1] = "LoopFault"
    /\ pc[1] = "ping"
    /\ now >= Cooldown + 2 * Interval

\* C9: after a probe of the loop a statistics line is logged iff the number
\* of probes made so far is a positive multiple of 10.
C9_SummaryEveryTenth ==
    [][\A t \in Loops :
          ProbeEnds /\ pc[t] = "ping" /\ faults' = faults =>
              (summary' <=> (probes' > 0 /\ probes' % StatsEvery = 0))]_vars

\* C10: a failure to start the health server is fatal: start_server raises
\* it to its caller, it reaches the owner of the process, and the process
\* does not go on running without a health server.
C10_StartupFailureFatal ==
    /\ raised # "none" => surfaced = raised /\ proc = "exited"
    /\ proc \in {"polling", "serving"} => listening

\* C11: GET /status has exactly three outcomes: no bound application,
\* "not_initialized" with HTTP 200; a bound application whose get_me()
\* answers, "running" with HTTP 200; one whose get_me() fails, "error" with
\* HTTP 500.  The handler never raises and changes neither the bound
\* application nor the state of the server.
C11_StatusOutcomes ==
    [][response' # response /\ response'.route = "/status" =>
          /\ response'.exc = "none"
          /\ Len(response'.body) > 0
          /\ response'.body[1] =
                 IF srv_bot # "Bot" THEN "not_initialized"
                 ELSE IF queried' = "answered" THEN "running" ELSE "error"
          /\ response'.status =
                 IF response'.body[1] = "error" THEN 500 ELSE 200
          /\ srv_bot = "Bot" => queried' \in {"answered", "failed"}
          /\ UNCHANGED <<bot, srv_bot, srv_start, listening, proc, exit_code,
                         raised, surfaced>>]_vars

C11_Witness ==
    /\ srv_bot = "Bot"
    /\ queried = "failed"
    /\ response.route = "/status"
    /\ response.status = 500
    /\ response.body[1] = "error"
    /\ proc = "polling"

\* The value the tokens give unit w (0: no token of the unit).
Has(tokens, w) == \E i \in 1..Len(tokens) : tokens[i].word = w
Value(tokens, w) ==
    IF Has(tokens, w)
    THEN tokens[CHOOSE i \in 1..Len(tokens) : tokens[i].word = w].n
    ELSE 0
Rank(w) == CASE w = "d" -> 1 [] w = "ch" -> 2 [] w = "m" -> 3 [] w = "s" -> 4

\* C12: for every whole s >= 0, format_duration(s) gives tokens in the order
\* days, hours, minutes, seconds whose values add up to s with hours < 24,
\* minutes < 60 and seconds < 60; a token of days, hours or minutes is there
\* iff its value is not zero, the token of seconds iff it is not zero or all
\* the others are; so there is always a token (0: one token, zero seconds;
\* 90061: all four).
C12_FormatDuration ==
    stats.called =>
        LET toks == stats.uptime_formatted
            s == stats.uptime_seconds
            dv == Value(toks, "d")
            hv == Value(toks, "ch")
            mv == Value(toks, "m")
            sv == Value(toks, "s")
        IN
        /\ Len(toks) > 0
        /\ \A i \in 1..Len(toks) :
               /\ toks[i].word \in {"d", "ch", "m", "s"}
               /\ i < Len(toks) => Rank(toks[i].word) < Rank(toks[i + 1].word)
        /\ dv * 86400 + hv * 3600 + mv * 60 + sv = s
        /\ hv < 24 /\ mv < 60 /\ sv < 60
        /\ \A w \in {"d", "ch", "m"} : Has(toks, w) <=> Value(toks, w) > 0
        /\ Has(toks, "s") <=> (sv > 0 \/ (dv = 0 /\ hv = 0 /\ mv = 0))
        /\ s = 0 => toks = <<[n |-> 0, word |-> "s"]>>
        /\ s = 90061 => Len(toks) = 4

C12_Witness ==
    /\ stats.called
    /\ stats.uptime_seconds = 90061
    /\ stats.uptime_formatted =
           <<[n |-> 1, word |-> "d"], [n |-> 1, word |-> "ch"],
             [n |-> 1, word |-> "m"], [n |-> 1, word |-> "s"]>>

\* C13: get_uptime_stats() only reads: a call, wherever the loop is, leaves
\* start_time, last_ping, ping_count, failed_pings and is_running as they
\* were and reports the two counters as they are.
C13_StatsPureRead ==
    [][stats'.called =>
          /\ UNCHANGED <<start_time, last_ping, ping_count, failed_pings,
                         is_running, pc, wake, now>>
          /\ stats'.total_pings = ping_count
          /\ stats'.failed_pings = failed_pings]_vars

C13_Witness ==
    /\ stats.called
    /\ pc[1] = "ping"
    /\ stats.total_pings = 2
    /\ stats.failed_pings = 1
    /\ is_running

\* The unit and the grammatical form of a unit name of format_uptime.
UnitOf(word) ==
    CASE word \in {"den", "dena", "deney"} -> "d"
      [] word \in {"chas", "chasa", "chasov"} -> "ch"
      [] word \in {"minuta", "minuty", "minut"} -> "m"
      [] word \in {"sekunda", "sekundy", "sekund"} -> "s"
FormOf(word) ==
    CASE word \in {"den", "chas", "minuta", "sekunda"} -> "singular"
      [] word \in {"dena", "chasa", "minuty", "sekundy"} -> "small-plural"
      [] word \in {"deney", "chasov", "minut", "sekund"} -> "large-plural"
\* The form Russian asks for after n.
FormFor(n) ==
    IF n % 10 = 1 /\ n % 100 # 11 THEN "singular"
    ELSE IF n % 10 \in 2..4 /\ n % 100 \notin 12..14 THEN "small-plural"
    ELSE "large-plural"

\* C14: format_uptime gives every value the form of the unit name Russian
\* asks for: singular after values ending in 1 but not in 11, small plural
\* after those ending in 2 to 4 but not in 12 to 14, large plural otherwise.
C14_RussianForms ==
    response.route = "/uptime" =>
        \A i \in 1..Len(response.body[3]) :
            FormOf(response.body[3][i].word) = FormFor(response.body[3][i].n)

\* C15: for every s >= 0, format_uptime(s) and format_duration(s) hold the
\* same units, in the same order, with the same values.
Units(tokens, unit(_)) ==
    [i \in 1..Len(tokens) |-> <<tokens[i].n, unit(tokens[i].word)>>]
Same(word) == word

C15_SameUnits ==
    stats.called /\ response.route = "/uptime" =>
        Units(response.body[3], UnitOf) = Units(stats.uptime_formatted, Same)

C15_Witness ==
    /\ stats.called
    /\ response.route = "/uptime"
    /\ now = 90061
    /\ Len(response.body[3]) = 4
    /\ Len(stats.uptime_formatted) = 4

\* C16: the success_rate get_uptime_stats() reports is a percentage between
\* 0 and 100 (here in hundredths of a percent).
C16_SuccessRateRange ==
    stats.called => 0 <= stats.success_rate /\ stats.success_rate <= 10000

\* C17: whatever the order of the calls of start_monitoring() and
\* stop_monitoring() on one monitor, at most one loop is active: a loop asked
\* to stop while it sleeps ends at its next wake-up, even if start_monitoring()
\* was called again before it, and two loops never probe at the same time.
C17_OneLoopActive ==
    [][/\ \A t \in Loops :
              stop_req[t] /\ pc[t] = "sleep" /\ pc'[t] # "sleep"
                  => pc'[t] = "done"
       /\ Cardinality({t \in Loops : pc'[t] \in {"first_ping", "ping"}}) <= 1
       /\ Cardinality({t \in Loops :
              pc'[t] \in {"first_ping", "sleep", "ping", "cooldown"}}) <= 1]_vars

\* C18: once start_monitoring() has finished, by a stop, a cancellation or an
\* exception, and no other call of it is under way, is_running is false.
C18_FlagFalseWhenFinished ==
    (/\ \E t \in Loops : pc[t] \in {"done", "raised"}
     /\ \A t \in Loops : ~Running(t)) => ~is_running

\* C19: wherever the cancellation arrives (first probe, probe of the loop,
\* interval sleep, cooldown sleep), start_monitoring() returns normally, no
\* CancelledError leaves it, and it makes no probe afterwards.
C19_CancelAbsorbed ==
    [][\A t \in Loops :
          /\ error'[t] = "CancelledError" => pc'[t] = "done"
          /\ error[t] = "CancelledError" => pc'[t] = pc[t]]_vars

TypeOK ==
    /\ now \in Nat
    /\ start_time = 0
    /\ last_ping \in {None} \cup Nat
    /\ ping_count \in 0..MaxProbes
    /\ failed_pings \in 0..MaxProbes
    /\ is_running \in BOOLEAN
    /\ pc \in [Loops -> {"idle", "first_ping", "sleep", "ping", "cooldown",
                         "done", "raised"}]
    /\ probes \in 0..MaxProbes
====
